---- MODULE Spec2Model ----
(***************************************************************************)
(* Model of afusion/execution.py, run_alphafold: write a Slurm batch       *)
(* script, submit it with sbatch, then poll sacct and tail the job's       *)
(* stderr log until the status text names a terminal state.                *)
(*                                                                         *)
(* Text is modelled as a sequence of tokens.  In command output a token is *)
(* a maximal run of non-whitespace characters or one whitespace character; *)
(* in the stderr log a token is one character.                             *)
(***************************************************************************)
EXTENDS Integers, Sequences, FiniteSets, TLC

VARIABLES
    pc,                \* position of run_alphafold
    outcome,           \* how the call ended: "none" while it runs
    returned,          \* the value handed to the caller
    placeholder,       \* TRUE when the caller passed a placeholder
    slurm_script_path, \* name chosen by tempfile.mktemp
    script_written,    \* the script file exists on disk
    result,            \* CompletedProcess of sbatch
    job_id,            \* last token of sbatch's stdout
    status_result,     \* CompletedProcess of the last sacct
    job_status,        \* status_result.stdout.strip()
    last_read_pos,     \* offset of the next unread byte of the log
    output_lines,      \* every line read so far
    new_lines,         \* lines of the current read not yet handled by the for loop
    job,               \* scheduler: state of the submitted job
    logExists,         \* scheduler: the stderr log file has been created
    logFile,           \* scheduler: contents of the stderr log
    observed,          \* texts passed to placeholder.markdown, in order
    nSubmits,          \* sbatch invocations
    nQueries,          \* sacct invocations
    nNonTerminal,      \* sacct outputs naming none of the three keywords
    nReads,            \* log-read attempts (the os.path.exists test and what follows)
    nSleeps,           \* time.sleep calls
    iterLines,         \* lines returned by the read of the current iteration
    iterObserved,      \* placeholder.markdown calls of the current iteration
    counting,          \* TRUE when the call counters above are kept
    command,           \* parameter: the command to run
    slurm_log_dir,     \* parameter: directory of the Slurm logs
    slurm_time,        \* parameter: wall-clock limit
    acceleratorCount,  \* the accelerator count the caller's job specification asks for
    slurm_script_content, \* the rendered script
    tmpdir,            \* the temporary directory: contents of each file name
    submitted,         \* the script sbatch read from slurm_script_path
    stderr_path,       \* path of the log the poll loop reads
    queried,           \* job ids passed to sacct
    slept,             \* seconds spent in time.sleep
    other              \* a second run of run_alphafold, up to its sbatch

vars == <<pc, outcome, returned, placeholder, slurm_script_path, script_written,
          result, job_id, status_result, job_status, last_read_pos, output_lines,
          new_lines, job, logExists, logFile, observed, nSubmits, nQueries,
          nNonTerminal, nReads, nSleeps, iterLines, iterObserved, counting,
          command, slurm_log_dir, slurm_time, acceleratorCount,
          slurm_script_content, tmpdir, submitted, stderr_path, queried, slept,
          other>>

\* what the caller passes, and what it meant to ask for
paramVars == <<command, slurm_log_dir, slurm_time, acceleratorCount>>

driverVars == <<pc, outcome, returned, slurm_script_path, script_written,
                result, job_id, status_result, job_status, last_read_pos,
                output_lines, new_lines, observed, nSubmits, nQueries,
                nNonTerminal, nReads, nSleeps, iterLines, iterObserved,
                slurm_script_content, tmpdir, submitted, stderr_path, queried,
                slept>>

(***************************************************************************)
(* Bounds                                                                  *)
(***************************************************************************)
\* longest stderr log the scheduler writes, in characters
MaxLog == 3
\* most sacct invocations followed while the call counters are kept
MaxPolls == 3

\* line 79: seconds slept between two polls
SleepSeconds == 5

(***************************************************************************)
(* Text                                                                    *)
(***************************************************************************)
Whitespace == {" ", "\n"}

Last(s) == s[Len(s)]

\* a \o b \o c ... of a sequence of sequences: ''.join(lines)
RECURSIVE join(_)
join(lines) == IF lines = <<>> THEN <<>> ELSE Head(lines) \o join(Tail(lines))

RECURSIVE lstrip(_)
lstrip(s) == IF s # <<>> /\ Head(s) \in Whitespace THEN lstrip(Tail(s)) ELSE s

RECURSIVE rstrip(_)
rstrip(s) ==
    IF s # <<>> /\ Last(s) \in Whitespace THEN rstrip(SubSeq(s, 1, Len(s) - 1)) ELSE s

\* str.strip(): leading and trailing whitespace removed
strip(s) == rstrip(lstrip(s))

\* str.split(): the whitespace-separated words
split(s) == SelectSeq(s, LAMBDA t : t \notin Whitespace)

\* the keywords a token of sacct output contains as substrings
Substrings(t) == IF t = "CANCELLED+" THEN {"CANCELLED", t} ELSE {t}

\* Python's  kw in s
In(kw, s) == \E i \in 1..Len(s) : kw \in Substrings(s[i])

\* file.readlines(): the text cut after every newline, line ends kept
RECURSIVE readlines(_)
readlines(text) ==
    IF text = <<>> THEN <<>>
    ELSE LET ends == {i \in 1..Len(text) : text[i] = "\n"}
             cut == IF ends = {} THEN Len(text)
                    ELSE CHOOSE i \in ends : \A j \in ends : i <= j
         IN <<SubSeq(text, 1, cut)>> \o readlines(SubSeq(text, cut + 1, Len(text)))

\* the text placeholder.markdown receives: the output inside a code fence
\* (the token "fence" stands for the three backquotes)
Markdown(lines) == <<"fence", "\n">> \o join(lines) \o <<"\n", "fence">>

\* the script with the default limit in place of the slurm_time parameter
RenderDefaultTime(cmd, dir, time) ==
    << <<"#!/bin/bash">>,
       <<"#SBATCH --job-name=alphafold_run">>,
       <<"#SBATCH --output=", dir, "/run/stdout-%j.log">>,
       <<"#SBATCH --error=", dir, "/run/stderr-%j.log">>,
       <<"#SBATCH --time=", "48:00:00">>,
       <<"#SBATCH --gpus=", "1">>,
       <<>>,
       <<"# Run the command">>,
       <<cmd>> >>

\* lines 22-31: the script, line by line; a line is the pieces the f-string
\* puts together
Render(cmd, dir, time) ==
    << <<"#!/bin/bash">>,
       <<"#SBATCH --job-name=alphafold_run">>,
       <<"#SBATCH --output=", dir, "/run/stdout-%j.log">>,
       <<"#SBATCH --error=", dir, "/run/stderr-%j.log">>,
       <<"#SBATCH --time=", time>>,
       <<"#SBATCH --gpus=", "1">>,
       <<>>,
       <<"# Run the command">>,
       <<cmd>> >>

(***************************************************************************)
(* What the outside world can hand to the driver                           *)
(***************************************************************************)
\* names tempfile.mktemp can return
TmpNames == {"alphafold_slurm_a.sh", "alphafold_slurm_b.sh"}

\* values of the parameters command, slurm_log_dir and slurm_time
Commands ==
    {"singularity exec af3.sif python run_alphafold.py --json_path=in.json",
     "python run_alphafold.py --output_dir={out}",
     "srun hostname"}
LogDirs == {"/logs", "/scratch/af3 runs"}
TimeLimits == {"48:00:00", "01:00:00", "7-00:00:00"}

\* slurm_time when the caller does not pass it (line 8)
DefaultTime == "48:00:00"

\* accelerator counts a job specification can ask for, as decimal text
AcceleratorCounts == {"0", "1", "2"}

\* the command of the second run
OtherCommand == "python other_job.py"

\* the job id the scheduler gives the job, and the path of its stderr log
\* (#SBATCH --error with %j replaced)
SchedulerJobId == "42"
JobLogPath == <<slurm_log_dir, "/run/stderr-", SchedulerJobId, ".log">>

\* no file of that name
NoFile == <<>>

\* characters the job writes to its stderr log: text whose lines end in a
\* newline (a log that cannot be decoded makes the read raise, ReadLogRaises)
LogChars == {"x", "\n"}

\* what sbatch can print and how it can exit
SubmitResults ==
    [returncode : {0, 1},
     stdout : {<<>>, <<"\n">>, <<"Submitted", " ", "batch", " ", "job", " ", "42", "\n">>},
     stderr : {<<>>, <<"quota", " ", "exceeded", "\n">>}]

\* states of a job that has not ended, and the states it can end in
LiveStates == {"PENDING", "RUNNING"}
EndStates == {"COMPLETED", "FAILED", "CANCELLED", "TIMEOUT"}

\* the word sacct prints for a state ("CANCELLED by <uid>" is cut to CANCELLED+)
StateToken(j) == IF j = "CANCELLED" THEN "CANCELLED+" ELSE j

\* what  sacct -j <id> --format=State --noheader  can answer for a job in state j:
\* nothing (the command failed, or accounting does not know the job yet), the
\* job's line, or the job's line followed by the line of a job step that completed
QueryResults(j) ==
    {[returncode |-> 1, stdout |-> <<>>], [returncode |-> 0, stdout |-> <<>>]}
    \cup (IF j \in LiveStates \cup EndStates
          THEN {[returncode |-> 0, stdout |-> <<" ", StateToken(j), " ", "\n">>]}
          ELSE {})
    \cup (IF j \in EndStates
          THEN {[returncode |-> 0,
                 stdout |-> <<" ", StateToken(j), " ", "\n", " ", "COMPLETED", " ", "\n">>]}
          ELSE {})

\* str(e) of the exceptions the calls can raise
ForkErrorText == <<"[Errno 12] Cannot allocate memory">>
IndexErrorText == <<"list index out of range">>
ReadErrorText == <<"[Errno 13] Permission denied">>
ObserverErrorText == <<"placeholder failed">>

NoResult == [returncode |-> 0, stdout |-> <<>>, stderr |-> <<>>]
NoStatus == [returncode |-> 0, stdout |-> <<>>]

(***************************************************************************)
(* Initial state: run_alphafold has just been called                       *)
(***************************************************************************)
\* no second run
NoOther == [pc |-> "off", path |-> "none", content |-> NoFile, submitted |-> NoFile]

\* the locals of a call that has just started, in an empty temporary directory
Fresh(c) ==
    /\ pc = "mktemp"
    /\ outcome = "none"
    /\ returned = <<>>
    /\ placeholder \in BOOLEAN
    /\ slurm_script_path = "none"
    /\ script_written = FALSE
    /\ result = NoResult
    /\ job_id = "none"
    /\ status_result = NoStatus
    /\ job_status = <<>>
    /\ last_read_pos = 0
    /\ output_lines = <<>>
    /\ new_lines = <<>>
    /\ job = "none"
    /\ logExists = FALSE
    /\ logFile = <<>>
    /\ observed = <<>>
    /\ nSubmits = 0
    /\ nQueries = 0
    /\ nNonTerminal = 0
    /\ nReads = 0
    /\ nSleeps = 0
    /\ iterLines = 0
    /\ iterObserved = 0
    /\ counting = c
    /\ slurm_script_content = NoFile
    /\ tmpdir = [name \in TmpNames |-> NoFile]
    /\ submitted = NoFile
    /\ stderr_path = <<>>
    /\ queried = {}
    /\ slept = 0

\* one call with one choice of parameters
InitWith(c) ==
    /\ Fresh(c)
    /\ command = "singularity exec af3.sif python run_alphafold.py --json_path=in.json"
    /\ slurm_log_dir = "/logs"
    /\ slurm_time = DefaultTime
    /\ acceleratorCount = "1"
    /\ other = NoOther

Init == InitWith(TRUE)

\* a call counter after one more call
Tick(n) == IF counting THEN n + 1 ELSE n

(***************************************************************************)
(* The ways run_alphafold ends                                             *)
(***************************************************************************)
\* a return statement
Return(how, value) ==
    /\ pc' = "done"
    /\ outcome' = how
    /\ returned' = value

\* a handler that returns the accumulated output instead of the description
CaughtReturnsOutput(description) == Return("UnexpectedError", join(output_lines))

\* lines 83-85: an exception raised inside the try block
Caught(description) == Return("UnexpectedError", description)

\* an exception raised outside the try block leaves run_alphafold
Propagates == Return("Raised", <<>>)

(***************************************************************************)
(* Decisions run_alphafold takes                                           *)
(***************************************************************************)
\* the refusal test with the comparison turned round
SubmitRejectedNegative(r) == r.returncode < 0

\* line 41: sbatch was refused
SubmitRejected(r) == r.returncode # 0

\* line 45: the words of sbatch's stdout; the job id is the last of them
JobIdWords(r) == split(strip(r.stdout))

\* the job id taken from the front of sbatch's output
JobIdFirstWord(r) == Head(JobIdWords(r))

\* line 45: the job id
JobId(r) == Last(JobIdWords(r))

\* line 49: the path of the job's stderr log
StderrPath(dir, id) == <<dir, "/run/stderr-", id, ".log">>

\* line 66: os.path.exists(stderr_path)
StderrExists == logExists /\ stderr_path = JobLogPath

\* the classification by equality with a keyword instead of containment
ClassifyExact(status) ==
    IF status = <<"COMPLETED">> THEN "break"
    ELSE IF status = <<"FAILED">> \/ status = <<"CANCELLED">> THEN "return"
    ELSE "poll"

\* the classification without the elif branch of lines 61-63
ClassifyWithoutFailure(status) ==
    IF In("COMPLETED", status) THEN "break" ELSE "poll"

\* the classification with an empty status text taken for a failure
ClassifyEmptyFails(status) ==
    IF In("COMPLETED", status) THEN "break"
    ELSE IF status = <<>> \/ In("FAILED", status) \/ In("CANCELLED", status)
    THEN "return"
    ELSE "poll"

\* lines 58-63: what the loop does with a status text
Classify(status) ==
    IF In("COMPLETED", status) THEN "break"
    ELSE IF In("FAILED", status) \/ In("CANCELLED", status) THEN "return"
    ELSE "poll"

\* the read without the seek of line 68: the file is read from its start
ReadFromStart(file, pos) == file

\* lines 68-69: seek(pos) and read to the end of the file
ReadFrom(file, pos) == SubSeq(file, pos + 1, Len(file))

\* line 70: tell() after the file was read to its end
Tell(file) == Len(file)

(***************************************************************************)
(* Steps of run_alphafold                                                  *)
(***************************************************************************)
\* line 21: tempfile.mktemp returns a name no file has
Mktemp ==
    /\ pc = "mktemp"
    /\ \E name \in TmpNames :
          /\ tmpdir[name] = NoFile
          /\ slurm_script_path' = name
    /\ pc' = "write"
    /\ UNCHANGED <<outcome, returned, placeholder, script_written, result, job_id,
                   status_result, job_status, last_read_pos, output_lines, new_lines,
                   job, logExists, logFile, observed, nSubmits, nQueries,
                   nNonTerminal, nReads, nSleeps, iterLines, iterObserved, counting,
                   paramVars, other,
                   slurm_script_content, tmpdir, submitted, stderr_path, queried, slept>>

\* lines 33-36: the script is written
WriteScript ==
    /\ pc = "write"
    /\ slurm_script_content' = Render(command, slurm_log_dir, slurm_time)
    /\ tmpdir' = [tmpdir EXCEPT ![slurm_script_path] = slurm_script_content']
    /\ script_written' = TRUE
    /\ pc' = "submit"
    /\ UNCHANGED <<outcome, returned, placeholder, slurm_script_path, result, job_id,
                   status_result, job_status, last_read_pos, output_lines, new_lines,
                   job, logExists, logFile, observed, nSubmits, nQueries,
                   nNonTerminal, nReads, nSleeps, iterLines, iterObserved, counting,
                   paramVars, other,
                   submitted, stderr_path, queried, slept>>

\* lines 33-34: open or write raises; the statement is not inside the try block
WriteScriptRaises ==
    /\ pc = "write"
    /\ Propagates
    /\ UNCHANGED <<placeholder, slurm_script_path, script_written, result, job_id,
                   status_result, job_status, last_read_pos, output_lines, new_lines,
                   job, logExists, logFile, observed, nSubmits, nQueries,
                   nNonTerminal, nReads, nSleeps, iterLines, iterObserved, counting,
                   paramVars, other,
                   slurm_script_content, tmpdir, submitted, stderr_path, queried, slept>>

\* lines 40-51: sbatch runs; a refusal is returned, otherwise the job id is
\* taken from its output and the poll loop is entered
Submit ==
    /\ pc = "submit"
    /\ nSubmits' = Tick(nSubmits)
    /\ submitted' = tmpdir[slurm_script_path]
    /\ \E r \in SubmitResults :
          /\ result' = r
          /\ job' = IF r.returncode = 0 THEN "PENDING" ELSE "none"
          /\ IF SubmitRejected(r)
             THEN /\ Return("SchedulerRejected", r.stderr)
                  /\ UNCHANGED <<job_id, stderr_path, last_read_pos, output_lines>>
             ELSE IF JobIdWords(r) = <<>>
             THEN /\ Caught(IndexErrorText)
                  /\ UNCHANGED <<job_id, stderr_path, last_read_pos, output_lines>>
             ELSE /\ job_id' = JobId(r)
                  /\ stderr_path' = StderrPath(slurm_log_dir, job_id')
                  /\ output_lines' = <<>>
                  /\ last_read_pos' = 0
                  /\ pc' = "query"
                  /\ UNCHANGED <<outcome, returned>>
    /\ UNCHANGED <<placeholder, slurm_script_path, script_written, status_result,
                   job_status, new_lines, logExists, logFile, observed, nQueries,
                   nNonTerminal, nReads, nSleeps, iterLines, iterObserved, counting,
                   paramVars, other,
                   slurm_script_content, tmpdir, queried, slept>>

\* line 40: subprocess.run raises because no shell could be started; sbatch
\* has not run
SubmitRaises ==
    /\ pc = "submit"
    /\ Caught(ForkErrorText)
    /\ UNCHANGED <<placeholder, slurm_script_path, script_written, result, job_id,
                   status_result, job_status, last_read_pos, output_lines, new_lines,
                   job, logExists, logFile, observed, nSubmits, nQueries,
                   nNonTerminal, nReads, nSleeps, iterLines, iterObserved, counting,
                   paramVars, other,
                   slurm_script_content, tmpdir, submitted, stderr_path, queried, slept>>

\* lines 55-63: sacct runs and its output decides how the iteration goes on
Query ==
    /\ pc = "query"
    /\ counting => nQueries < MaxPolls
    /\ nQueries' = Tick(nQueries)
    /\ queried' = queried \cup {job_id}
    /\ \E q \in QueryResults(job) :
          /\ status_result' = q
          /\ job_status' = strip(q.stdout)
          /\ nNonTerminal' =
                IF \A kw \in {"COMPLETED", "FAILED", "CANCELLED"} : ~In(kw, q.stdout)
                THEN Tick(nNonTerminal) ELSE nNonTerminal
          /\ CASE Classify(job_status') = "break" ->
                     Return("Succeeded", join(output_lines))
               [] Classify(job_status') = "return" ->
                     Return("JobFailed", job_status')
               [] OTHER ->
                     /\ pc' = "read"
                     /\ UNCHANGED <<outcome, returned>>
    /\ iterLines' = 0
    /\ iterObserved' = 0
    /\ UNCHANGED <<placeholder, slurm_script_path, script_written, result, job_id,
                   last_read_pos, output_lines, new_lines, job, logExists, logFile,
                   observed, nSubmits, nReads, nSleeps, counting,
                   paramVars, other,
                   slurm_script_content, tmpdir, submitted, stderr_path, slept>>

\* line 55: subprocess.run raises because no shell could be started; sacct
\* has not run
QueryRaises ==
    /\ pc = "query"
    /\ Caught(ForkErrorText)
    /\ UNCHANGED <<placeholder, slurm_script_path, script_written, result, job_id,
                   status_result, job_status, last_read_pos, output_lines, new_lines,
                   job, logExists, logFile, observed, nSubmits, nQueries,
                   nNonTerminal, nReads, nSleeps, iterLines, iterObserved, counting,
                   paramVars, other,
                   slurm_script_content, tmpdir, submitted, stderr_path, queried, slept>>

\* the read with a  continue  for the missing log: the sleep is skipped
ReadLogSkipsSleep ==
    /\ pc = "read"
    /\ nReads' = Tick(nReads)
    /\ IF StderrExists
       THEN LET lines == readlines(ReadFrom(logFile, last_read_pos))
            IN /\ new_lines' = lines
               /\ last_read_pos' = Tell(logFile)
               /\ output_lines' = output_lines \o lines
               /\ iterLines' = Len(lines)
               /\ pc' = IF lines = <<>> THEN "sleep" ELSE "lines"
       ELSE /\ pc' = "query"
            /\ UNCHANGED <<new_lines, last_read_pos, output_lines, iterLines>>
    /\ UNCHANGED <<outcome, returned, placeholder, slurm_script_path, script_written,
                   result, job_id, status_result, job_status, job, logExists, logFile,
                   observed, nSubmits, nQueries, nNonTerminal, nSleeps, iterObserved,
                   counting,
                   paramVars, other,
                   slurm_script_content, tmpdir, submitted, stderr_path, queried, slept>>

\* a read that keeps only the lines just read
ReadLogReplacesOutput ==
    /\ pc = "read"
    /\ nReads' = Tick(nReads)
    /\ IF StderrExists
       THEN LET lines == readlines(ReadFrom(logFile, last_read_pos))
            IN /\ new_lines' = lines
               /\ last_read_pos' = Tell(logFile)
               /\ output_lines' = lines
               /\ iterLines' = Len(lines)
               /\ pc' = IF lines = <<>> THEN "sleep" ELSE "lines"
       ELSE /\ pc' = "sleep"
            /\ UNCHANGED <<new_lines, last_read_pos, output_lines, iterLines>>
    /\ UNCHANGED <<outcome, returned, placeholder, slurm_script_path, script_written,
                   result, job_id, status_result, job_status, job, logExists, logFile,
                   observed, nSubmits, nQueries, nNonTerminal, nSleeps, iterObserved,
                   counting,
                   paramVars, other,
                   slurm_script_content, tmpdir, submitted, stderr_path, queried, slept>>

\* lines 66-72: when the log exists, what follows last_read_pos is read
ReadLog ==
    /\ pc = "read"
    /\ nReads' = Tick(nReads)
    /\ IF StderrExists
       THEN LET lines == readlines(ReadFrom(logFile, last_read_pos))
            IN /\ new_lines' = lines
               /\ last_read_pos' = Tell(logFile)
               /\ output_lines' = output_lines \o lines
               /\ iterLines' = Len(lines)
               /\ pc' = IF lines = <<>> THEN "sleep" ELSE "lines"
       ELSE /\ pc' = "sleep"
            /\ UNCHANGED <<new_lines, last_read_pos, output_lines, iterLines>>
    /\ UNCHANGED <<outcome, returned, placeholder, slurm_script_path, script_written,
                   result, job_id, status_result, job_status, job, logExists, logFile,
                   observed, nSubmits, nQueries, nNonTerminal, nSleeps, iterObserved,
                   counting,
                   paramVars, other,
                   slurm_script_content, tmpdir, submitted, stderr_path, queried, slept>>

\* lines 67-69: open or readlines raises
ReadLogRaises ==
    /\ pc = "read"
    /\ StderrExists
    /\ nReads' = Tick(nReads)
    /\ Caught(ReadErrorText)
    /\ UNCHANGED <<placeholder, slurm_script_path, script_written, result, job_id,
                   status_result, job_status, last_read_pos, output_lines, new_lines,
                   job, logExists, logFile, observed, nSubmits, nQueries,
                   nNonTerminal, nSleeps, iterLines, iterObserved, counting,
                   paramVars, other,
                   slurm_script_content, tmpdir, submitted, stderr_path, queried, slept>>

\* a for loop whose end goes back to the status query at once
ForLineSkipsSleep ==
    /\ pc = "lines"
    /\ new_lines # <<>>
    /\ IF placeholder
       THEN /\ observed' = Append(observed, Markdown(output_lines))
            /\ iterObserved' = iterObserved + 1
       ELSE UNCHANGED <<observed, iterObserved>>
    /\ new_lines' = Tail(new_lines)
    /\ pc' = IF Tail(new_lines) = <<>> THEN "query" ELSE "lines"
    /\ UNCHANGED <<outcome, returned, placeholder, slurm_script_path, script_written,
                   result, job_id, status_result, job_status, last_read_pos,
                   output_lines, job, logExists, logFile, nSubmits, nQueries,
                   nNonTerminal, nReads, nSleeps, iterLines, counting,
                   paramVars, other,
                   slurm_script_content, tmpdir, submitted, stderr_path, queried, slept>>

\* lines 74-77: one turn of the for loop over the new lines
ForLine ==
    /\ pc = "lines"
    /\ new_lines # <<>>
    /\ IF placeholder
       THEN /\ observed' = Append(observed, Markdown(output_lines))
            /\ iterObserved' = iterObserved + 1
       ELSE UNCHANGED <<observed, iterObserved>>
    /\ new_lines' = Tail(new_lines)
    /\ pc' = IF Tail(new_lines) = <<>> THEN "sleep" ELSE "lines"
    /\ UNCHANGED <<outcome, returned, placeholder, slurm_script_path, script_written,
                   result, job_id, status_result, job_status, last_read_pos,
                   output_lines, job, logExists, logFile, nSubmits, nQueries,
                   nNonTerminal, nReads, nSleeps, iterLines, counting,
                   paramVars, other,
                   slurm_script_content, tmpdir, submitted, stderr_path, queried, slept>>

\* line 77: placeholder.markdown raises
MarkdownRaises ==
    /\ pc = "lines"
    /\ new_lines # <<>>
    /\ placeholder
    /\ Caught(ObserverErrorText)
    /\ UNCHANGED <<placeholder, slurm_script_path, script_written, result, job_id,
                   status_result, job_status, last_read_pos, output_lines, new_lines,
                   job, logExists, logFile, observed, nSubmits, nQueries,
                   nNonTerminal, nReads, nSleeps, iterLines, iterObserved, counting,
                   paramVars, other,
                   slurm_script_content, tmpdir, submitted, stderr_path, queried, slept>>

\* a sleep after which the log would be read from offset 0 again
SleepResetsCursor ==
    /\ pc = "sleep"
    /\ nSleeps' = Tick(nSleeps)
    /\ slept' = IF counting THEN slept + SleepSeconds ELSE slept
    /\ last_read_pos' = 0
    /\ pc' = "query"
    /\ UNCHANGED <<outcome, returned, placeholder, slurm_script_path, script_written,
                   result, job_id, status_result, job_status,
                   output_lines, new_lines, job, logExists, logFile, observed,
                   nSubmits, nQueries, nNonTerminal, nReads, iterLines, iterObserved,
                   counting,
                   paramVars, other,
                   slurm_script_content, tmpdir, submitted, stderr_path, queried>>

\* line 79: time.sleep(5), then the loop starts over
Sleep ==
    /\ pc = "sleep"
    /\ nSleeps' = Tick(nSleeps)
    /\ slept' = IF counting THEN slept + SleepSeconds ELSE slept
    /\ pc' = "query"
    /\ UNCHANGED <<outcome, returned, placeholder, slurm_script_path, script_written,
                   result, job_id, status_result, job_status, last_read_pos,
                   output_lines, new_lines, job, logExists, logFile, observed,
                   nSubmits, nQueries, nNonTerminal, nReads, iterLines, iterObserved,
                   counting,
                   paramVars, other,
                   slurm_script_content, tmpdir, submitted, stderr_path, queried>>

(***************************************************************************)
(* Steps of the scheduler and of the job                                   *)
(***************************************************************************)
\* the job is given its resources
JobStarts ==
    /\ job = "PENDING"
    /\ job' = "RUNNING"
    /\ UNCHANGED <<driverVars, placeholder, logExists, logFile, counting, paramVars, other>>

\* the scheduler creates the job's stderr log
CreateLog ==
    /\ job = "RUNNING"
    /\ ~logExists
    /\ logExists' = TRUE
    /\ UNCHANGED <<driverVars, placeholder, job, logFile, counting, paramVars, other>>

\* the job writes to its stderr log
AppendLog ==
    /\ job = "RUNNING"
    /\ logExists
    /\ Len(logFile) < MaxLog
    /\ \E c \in LogChars : logFile' = Append(logFile, c)
    /\ UNCHANGED <<driverVars, placeholder, job, logExists, counting, paramVars, other>>

\* the job ends, or is cancelled while it waits or runs
JobEnds ==
    /\ job \in LiveStates
    /\ \E e \in EndStates :
          /\ job = "PENDING" => e = "CANCELLED"
          /\ job' = e
    /\ UNCHANGED <<driverVars, placeholder, logExists, logFile, counting, paramVars, other>>

Driver ==
    \/ Mktemp \/ WriteScript \/ WriteScriptRaises \/ Submit \/ SubmitRaises
    \/ Query \/ QueryRaises \/ ReadLog \/ ReadLogRaises \/ ForLine \/ MarkdownRaises
    \/ Sleep

Scheduler == JobStarts \/ CreateLog \/ AppendLog \/ JobEnds

Next == Driver \/ Scheduler

Spec == Init /\ [][Next]_vars

\* a status query that sacct answers with the job's line
QueryAnswered == Query /\ status_result'.stdout # <<>>

\* the driver keeps taking steps, the job does not run for ever, and sacct
\* does not fail for ever; the call counters are not kept, so that a poll
\* loop is a cycle of states
LiveInit == InitWith(FALSE)

LiveSpec ==
    /\ LiveInit /\ [][Next]_vars
    /\ WF_vars(Driver) /\ WF_vars(JobEnds) /\ SF_vars(QueryAnswered)

(***************************************************************************)
(* Two calls at once: a second run_alphafold in the same temporary         *)
(* directory, followed up to its sbatch                                    *)
(***************************************************************************)
\* line 21 in the second run
OtherMktemp ==
    /\ other.pc = "mktemp"
    /\ \E name \in TmpNames :
          /\ tmpdir[name] = NoFile
          /\ other' = [other EXCEPT !.pc = "write", !.path = name]
    /\ UNCHANGED <<pc, outcome, returned, placeholder, slurm_script_path,
                   script_written, result, job_id, status_result, job_status,
                   last_read_pos, output_lines, new_lines, job, logExists, logFile,
                   observed, nSubmits, nQueries, nNonTerminal, nReads, nSleeps,
                   iterLines, iterObserved, counting, paramVars,
                   slurm_script_content, tmpdir, submitted, stderr_path, queried,
                   slept>>

\* lines 22-36 in the second run
OtherWriteScript ==
    /\ other.pc = "write"
    /\ LET content == Render(OtherCommand, slurm_log_dir, DefaultTime)
       IN /\ tmpdir' = [tmpdir EXCEPT ![other.path] = content]
          /\ other' = [other EXCEPT !.pc = "submit", !.content = content]
    /\ UNCHANGED <<pc, outcome, returned, placeholder, slurm_script_path,
                   script_written, result, job_id, status_result, job_status,
                   last_read_pos, output_lines, new_lines, job, logExists, logFile,
                   observed, nSubmits, nQueries, nNonTerminal, nReads, nSleeps,
                   iterLines, iterObserved, counting, paramVars,
                   slurm_script_content, submitted, stderr_path, queried, slept>>

\* line 40 in the second run: sbatch reads the file at the second run's path
OtherSubmit ==
    /\ other.pc = "submit"
    /\ other' = [other EXCEPT !.pc = "polling", !.submitted = tmpdir[other.path]]
    /\ UNCHANGED <<pc, outcome, returned, placeholder, slurm_script_path,
                   script_written, result, job_id, status_result, job_status,
                   last_read_pos, output_lines, new_lines, job, logExists, logFile,
                   observed, nSubmits, nQueries, nNonTerminal, nReads, nSleeps,
                   iterLines, iterObserved, counting, paramVars,
                   slurm_script_content, tmpdir, submitted, stderr_path, queried,
                   slept>>

\* both runs have just been called
ConcInit ==
    /\ Fresh(TRUE)
    /\ command = "singularity exec af3.sif python run_alphafold.py --json_path=in.json"
    /\ slurm_log_dir = "/logs"
    /\ slurm_time \in TimeLimits
    /\ acceleratorCount = "1"
    /\ other = [NoOther EXCEPT !.pc = "mktemp"]

\* the steps of the two runs up to and including their sbatch, in any order
ConcNext ==
    \/ Mktemp \/ WriteScript \/ WriteScriptRaises \/ Submit \/ SubmitRaises
    \/ OtherMktemp \/ OtherWriteScript \/ OtherSubmit

ConcSpec == ConcInit /\ [][ConcNext]_vars

(***************************************************************************)
(* The script builder alone, over every choice of parameters               *)
(***************************************************************************)
ScriptInit ==
    /\ Fresh(TRUE)
    /\ command \in Commands
    /\ slurm_log_dir \in LogDirs
    /\ slurm_time \in TimeLimits
    /\ acceleratorCount \in AcceleratorCounts
    /\ other = NoOther

ScriptNext == Mktemp \/ WriteScript \/ WriteScriptRaises

ScriptSpec == ScriptInit /\ [][ScriptNext]_vars

(***************************************************************************)
(* Vocabulary of the properties                                            *)
(***************************************************************************)
\* the text names keyword kw (the cut CANCELLED+ names CANCELLED)
Names(kw, text) ==
    \E i \in 1..Len(text) : text[i] = kw \/ (kw = "CANCELLED" /\ text[i] = "CANCELLED+")

NamesFailure(text) == Names("FAILED", text) \/ Names("CANCELLED", text)

AllWhitespace(text) == \A i \in 1..Len(text) : text[i] \in Whitespace

\* inner is text without the whitespace at its two ends
IsStripped(inner, text) ==
    /\ inner # <<>> => Head(inner) \notin Whitespace /\ Last(inner) \notin Whitespace
    /\ \E i \in 0..Len(text), j \in 0..Len(text) :
          /\ i + Len(inner) + j = Len(text)
          /\ AllWhitespace(SubSeq(text, 1, i))
          /\ SubSeq(text, i + 1, i + Len(inner)) = inner
          /\ AllWhitespace(SubSeq(text, i + Len(inner) + 1, Len(text)))

Polling == pc \in {"query", "read", "lines", "sleep"}

(***************************************************************************)
(* Properties                                                              *)
(***************************************************************************)
\* C1: when the job has completed and the call ends Succeeded, the returned
\* text is the whole stderr log as it was when sacct answered COMPLETED (the
\* job has ended by then, so the log no longer grows): nothing written after
\* the last poll's read is missing.
C1_FinalReadFlushes ==
    (outcome = "Succeeded" /\ job = "COMPLETED") => returned = logFile

\* C2: every call ends: the driver reaches its final position whatever the
\* scheduler answers once the job has ended.
C2_Terminates == <>(pc = "done")

\* C3: once sbatch has exited with a non-zero code the call is over: it ended
\* SchedulerRejected, returned sbatch's stderr exactly, and made no status
\* query, no log read, no sleep and no observer call.
C3_RejectedDirectly ==
    (nSubmits = 1 /\ result.returncode # 0) =>
        /\ pc = "done"
        /\ outcome = "SchedulerRejected"
        /\ returned = result.stderr
        /\ nQueries = 0 /\ nReads = 0 /\ nSleeps = 0 /\ observed = <<>>

C3_Witness ==
    /\ pc = "done"
    /\ result.returncode = 1
    /\ result.stderr = <<"quota", " ", "exceeded", "\n">>
    /\ returned = <<"quota", " ", "exceeded", "\n">>

\* C4: once sbatch has exited with code 0 and printed nothing but whitespace,
\* the call is over: it ended SchedulerRejected, returned sbatch's stderr
\* exactly, and made no status query.
C4_EmptyOutputRejected ==
    (nSubmits = 1 /\ result.returncode = 0 /\ AllWhitespace(result.stdout)) =>
        /\ pc = "done"
        /\ outcome = "SchedulerRejected"
        /\ returned = result.stderr
        /\ nQueries = 0

\* C5: once sacct's output has named FAILED or CANCELLED the call is over: it
\* ended JobFailed and returned the status text, also when the output names
\* COMPLETED as well.
C5_FailureWins ==
    (nQueries > 0 /\ NamesFailure(status_result.stdout)) =>
        /\ pc = "done"
        /\ outcome = "JobFailed"
        /\ returned = job_status

\* C6: a status query answered with FAILED or CANCELLED (and not COMPLETED)
\* ends the call at once: the returned value is that answer without the
\* whitespace around it, the step leaves the numbers of log reads, sleeps
\* and observer calls as they were, and nothing is done after it.
C6_FailedStopsAtQuery ==
    /\ [](nQueries > 0 /\ NamesFailure(status_result.stdout)
              /\ ~Names("COMPLETED", status_result.stdout) =>
            /\ pc = "done"
            /\ outcome = "JobFailed"
            /\ IsStripped(returned, status_result.stdout)
            /\ nReads = nQueries - 1
            /\ nSleeps = nQueries - 1)
    /\ [][(outcome' = "JobFailed") =>
            /\ nReads' = nReads
            /\ nSleeps' = nSleeps
            /\ observed' = observed
            /\ outcome = "JobFailed" => nQueries' = nQueries /\ returned' = returned]_vars

C6_Witness ==
    /\ outcome = "JobFailed"
    /\ nQueries = 2
    /\ nReads = 1
    /\ logFile # <<>>
    /\ returned = <<"CANCELLED+">>

\* C7: a call that ends Succeeded after n status answers naming none of the
\* keywords has made n + 1 status queries, n log-read attempts and n sleeps;
\* and inside every iteration the order is query, log-read attempt, sleep.
C7_PollCounts ==
    /\ outcome = "Succeeded" =>
          /\ nQueries = nNonTerminal + 1
          /\ nReads = nNonTerminal
          /\ nSleeps = nNonTerminal
    /\ pc = "query" => nQueries = nNonTerminal /\ nReads = nQueries /\ nSleeps = nQueries
    /\ pc = "read" =>
          nQueries = nNonTerminal /\ nReads = nQueries - 1 /\ nSleeps = nQueries - 1
    /\ pc \in {"lines", "sleep"} =>
          nQueries = nNonTerminal /\ nReads = nQueries /\ nSleeps = nQueries - 1

C7_Witness ==
    /\ outcome = "Succeeded"
    /\ nNonTerminal = 2
    /\ nQueries = 3
    /\ nReads = 2
    /\ nSleeps = 2

\* C8: in every poll iteration the observer is called at most once, only when
\* the read returned a line, with the whole accumulated output; a read that
\* returned lines is followed by exactly one call when an observer is attached.
C8_ObserverOncePerIteration ==
    /\ iterObserved <= 1
    /\ iterObserved > 0 => iterLines > 0
    /\ (pc = "sleep" /\ placeholder /\ iterLines > 0) => iterObserved = 1
    /\ (iterObserved > 0 /\ Polling) => Last(observed) = Markdown(output_lines)

\* C9: no exception leaves run_alphafold: every call that ends returns a value.
C9_NothingPropagates == outcome # "Raised"

TransientFailure ==
    nQueries > 0 /\ (status_result.returncode # 0 \/ status_result.stdout = <<>>)

NamesKeyword(text) == Names("COMPLETED", text) \/ NamesFailure(text)

C12_ScriptFilesApart ==
    /\ []((slurm_script_path # "none" /\ other.path # "none") =>
             slurm_script_path # other.path)
    /\ [](nSubmits = 1 => submitted = slurm_script_content)
    /\ [](other.pc = "polling" => other.submitted = other.content)
    /\ [][\A name \in TmpNames :
             tmpdir[name] # NoFile => tmpdir'[name] = tmpdir[name]]_vars

\* w is the last whitespace-separated word of text
IsLastWord(w, text) ==
    \E i \in 1..Len(text) :
        /\ text[i] = w
        /\ w \notin Whitespace
        /\ \A j \in (i + 1)..Len(text) : text[j] \in Whitespace

HeaderThenCommand(script, accelerators) ==
    /\ Len(script) >= 7
    /\ script[1] = <<"#!/bin/bash">>
    /\ script[2] = <<"#SBATCH --job-name=alphafold_run">>
    /\ script[3] = <<"#SBATCH --output=", slurm_log_dir, "/run/stdout-%j.log">>
    /\ script[4] = <<"#SBATCH --error=", slurm_log_dir, "/run/stderr-%j.log">>
    /\ script[5] = <<"#SBATCH --time=", slurm_time>>
    /\ script[6] = <<"#SBATCH --gpus=", accelerators>>
    /\ \A i \in 7..(Len(script) - 1) :
          script[i] = <<>> \/ script[i] = <<"# Run the command">>
    /\ Last(script) = <<command>>

C15_ClassificationByKeyword ==
    /\ [][nQueries' = nQueries + 1 =>
            \/ /\ NamesKeyword(status_result'.stdout)
               /\ pc' = "done"
               /\ outcome' \in {"Succeeded", "JobFailed"}
            \/ /\ ~NamesKeyword(status_result'.stdout)
               /\ pc' = "read"
               /\ outcome' = "none"]_vars
    /\ []((nQueries > 0 /\ NamesKeyword(status_result.stdout)) =>
            pc = "done" /\ outcome \in {"Succeeded", "JobFailed"})
    /\ []((nQueries > 0 /\ ~NamesKeyword(status_result.stdout)) =>
            outcome \in {"none", "UnexpectedError"})

\* an answer naming two keywords, and an empty answer before it
C15_Witness ==
    /\ pc = "done"
    /\ outcome = "Succeeded"
    /\ Names("CANCELLED", status_result.stdout)
    /\ Names("COMPLETED", status_result.stdout)
    /\ nNonTerminal = 1
    /\ nQueries = 2

\* C16: the cursor last_read_pos is 0 until the first read and no step ever
\* makes it smaller; a read attempt that finds no log file leaves the cursor,
\* the accumulated output and the observer's texts as they were and goes to
\* the sleep, and the sleep is followed by the next status query with the
\* three still unchanged.
C16_CursorMonotoneAndMissingLogSkipped ==
    /\ [](nReads = 0 => last_read_pos = 0)
    /\ [][last_read_pos' >= last_read_pos]_vars
    /\ [][(pc = "read" /\ ~StderrExists /\ pc' # pc) =>
            /\ pc' = "sleep"
            /\ nReads' = nReads + 1
            /\ UNCHANGED <<last_read_pos, output_lines, observed>>]_vars
    /\ [][(pc = "sleep" /\ pc' # pc) =>
            /\ pc' = "query"
            /\ nSleeps' = nSleeps + 1
            /\ UNCHANGED <<last_read_pos, output_lines, observed>>]_vars

\* an iteration without a log file has slept and is about to query again
C16_Witness ==
    /\ pc = "query"
    /\ nQueries = 1
    /\ nReads = 1
    /\ nSleeps = 1
    /\ ~logExists
    /\ last_read_pos = 0
    /\ output_lines = <<>>
    /\ observed = <<>>

\* s is an initial part of t
IsPrefix(s, t) == Len(s) <= Len(t) /\ SubSeq(t, 1, Len(s)) = s

\* text is some output between an opening fence line and a closing fence
IsFenced(text) ==
    /\ Len(text) >= 4
    /\ SubSeq(text, 1, 2) = <<"fence", "\n">>
    /\ SubSeq(text, Len(text) - 1, Len(text)) = <<"\n", "fence">>

\* the output a fenced text encloses
Unfence(text) == SubSeq(text, 3, Len(text) - 2)

C18_QueryReadSleepQuery ==
    /\ [][(pc = "query" /\ pc' # pc) =>
            /\ pc' \in {"read", "done"}
            /\ nReads = nQueries
            /\ nSleeps = nQueries
            /\ slept = SleepSeconds * nQueries]_vars
    /\ [][(pc = "read" /\ pc' # pc) =>
            /\ pc' \in {"lines", "sleep", "done"}
            /\ nReads' = nReads + 1
            /\ nReads' = nQueries
            /\ UNCHANGED <<nQueries, nSleeps, slept>>]_vars
    /\ [][(pc = "lines" /\ pc' # pc) =>
            /\ pc' \in {"sleep", "done"}
            /\ UNCHANGED <<nQueries, nReads, nSleeps, slept>>]_vars
    /\ [][(pc = "sleep" /\ pc' # pc) =>
            /\ pc' = "query"
            /\ nSleeps' = nSleeps + 1
            /\ nSleeps' = nQueries
            /\ slept' = slept + SleepSeconds
            /\ UNCHANGED <<nQueries, nReads>>]_vars

\* the third status query is due: one iteration found no new lines to show,
\* the other one did
C18_Witness ==
    /\ pc = "query"
    /\ nQueries = 2
    /\ nReads = 2
    /\ nSleeps = 2
    /\ slept = 2 * SleepSeconds
    /\ Len(observed) = 1

\* C19: when the log-read attempt or the for loop ends the call, the call
\* returns the description of the exception of the read or of the observer
\* and not the accumulated output, the job is left as it was, and from then
\* on the driver issues no status query and no submission; the job may then
\* still be pending or running.
C19_RaiseStopsPolling ==
    /\ [][(pc \in {"read", "lines"} /\ pc' = "done") =>
            /\ outcome' = "UnexpectedError"
            /\ returned' \in {ReadErrorText, ObserverErrorText}
            /\ returned' # join(output_lines')
            /\ UNCHANGED <<job, logExists, logFile, nQueries, queried,
                           nSubmits, submitted>>]_vars
    /\ [][(pc \in {"read", "lines"} /\ pc' # pc) => job' = job]_vars
    /\ [][pc = "done" =>
            /\ pc' = "done"
            /\ UNCHANGED <<outcome, returned, nQueries, queried,
                           nSubmits, submitted>>]_vars

\* the observer raised with output already accumulated while the job runs
C19_Witness ==
    /\ pc = "done"
    /\ outcome = "UnexpectedError"
    /\ returned = ObserverErrorText
    /\ output_lines # <<>>
    /\ nNonTerminal >= 1
    /\ job = "RUNNING"

====
